---- MODULE Spec2Model ----
(***************************************************************************)
(* Model of TP4/app.py: simular_puestos_carga, the discrete-event          *)
(* simulation of the charging stations ("Puestos de Carga").               *)
(*                                                                         *)
(* Conventions                                                             *)
(*  - Python None is the empty tuple <<>>, a present value v is <<v>>.     *)
(*  - Times are whole minutes.  Random draws u are given in 1/10000        *)
(*    (the four decimals the rows keep); round(x, 4) and round(x, 2) are   *)
(*    the identity on the whole numbers the model works with.              *)
(*  - A percentage is the exact fraction <<numerator, denominator>>.       *)
(*  - Python indexes from 0, TLA+ sequences from 1: station idx_ser of the *)
(*    code is servidores[idx_ser + 1].                                     *)
(*  - Row keys are the code's dictionary keys with the accents dropped;    *)
(*    the per-station columns "... puesto i" are one column holding the    *)
(*    sequence over the stations.                                          *)
(***************************************************************************)
EXTENDS Integers, Sequences, FiniteSets, TLC

VARIABLES
    params,                    \* the arguments of simular_puestos_carga
    servidores,                \* list of station dictionaries
    puesto_validacion_libre,   \* True = stand free
    cola_validacion,           \* FIFO of <<idx_servidor, tipo_dispositivo>>
    eventos_futuros,           \* the heapq list of Evento
    contador_global,           \* Evento._contador_global
    evento,                    \* the event popped by the current iteration
    vector_estado,             \* list of rows
    clock,
    evento_id,
    n_aceptadas,
    n_rechazadas,
    recaudacion_total,
    reloj_previo,
    n_ocupados_previo,
    acum_porcentaje_ponderado,
    acum_tiempo_ponderado,
    acum_time_usb_c,
    acum_time_lightning,
    acum_time_microusb,
    rec_usb_c,
    rec_lightning,
    rec_microusb,
    pc,                        \* "loop", "returned" or "KeyError"; in
                               \* index: "index", "error" or "simular"
    resumen,                   \* the summary returned, None until then
    form,                      \* request.form of the POST handled by index
    error_msg,                 \* error_msg of index
    procesados                 \* history: the events processed, in order

vars == <<params, servidores, puesto_validacion_libre, cola_validacion,
          eventos_futuros, contador_global, evento, vector_estado, clock,
          evento_id, n_aceptadas, n_rechazadas, recaudacion_total,
          reloj_previo, n_ocupados_previo, acum_porcentaje_ponderado,
          acum_tiempo_ponderado, acum_time_usb_c, acum_time_lightning,
          acum_time_microusb, rec_usb_c, rec_lightning, rec_microusb,
          pc, resumen, form, error_msg, procesados>>

None == <<>>
Some(v) == <<v>>

(***************************************************************************)
(* Bounds of the model and the inputs it enumerates.                       *)
(***************************************************************************)
MaxN == 6
MaxServidores == 2

\* N_max: no event at all, or up to MaxN events
NMaxValues == {0, MaxN}
\* T_max: nothing fits, or three arrival instants and their validations fit
TMaxValues == {0, 200}
TiempoValidacionValues == {0, 10, 70}
MediaValues == {60}
\* <<p_usb_c, p_lightning, p_microusb>> in 1/10000 (the form's defaults)
ProbValues == {<<4500, 2500, 3000>>}

\* u for the device type: one draw in each band of the default probabilities
RndDispositivo == {1000, 5000, 9000}
\* u for the inter-arrival time: -ln(1 - u) is 1 and 3 (to four decimals)
RndTiempo == {6321, 9502}
\* u for the charge time: one draw in each band
RndCarga == {1000, 6000, 9000, 9700}

T_max == params.T_max
N_max == params.N_max
media_interarribo == params.media_interarribo
p_usb_c == params.p_usb_c
p_lightning == params.p_lightning
p_microusb == params.p_microusb
tiempo_validacion == params.tiempo_validacion
n_servidores == params.n_servidores

(***************************************************************************)
(* class Evento                                                            *)
(***************************************************************************)
\* Evento(tiempo, tipo, data): _orden is the class counter at creation
Evento(tiempo, tipo, data, orden) ==
    [tiempo |-> tiempo, tipo |-> tipo, data |-> data, orden |-> orden]

\* a comparison that forgets the tie-break
LtSinDesempate(a, b) == a.tiempo < b.tiempo

\* an order that pops the later-created of two tied events first
LtOrdenInverso(a, b) ==
    IF a.tiempo = b.tiempo THEN a.orden > b.orden ELSE a.tiempo < b.tiempo

\* an order by creation alone
LtPorOrden(a, b) == a.orden < b.orden

\* Evento.__lt__
Lt(a, b) ==
    IF a.tiempo = b.tiempo THEN a.orden < b.orden ELSE a.tiempo < b.tiempo

(***************************************************************************)
(* heapq on a list whose items compare with __lt__ only.  Positions are    *)
(* the 0-based positions of the Python list.                               *)
(***************************************************************************)
At(heap, pos) == heap[pos + 1]
Put(heap, pos, item) == [heap EXCEPT ![pos + 1] = item]

RECURSIVE SiftDown(_, _, _, _)
\* heapq._siftdown: move newitem up from pos towards startpos
SiftDown(heap, startpos, pos, newitem) ==
    IF pos > startpos
    THEN LET parentpos == (pos - 1) \div 2
             parent == At(heap, parentpos)
         IN IF Lt(newitem, parent)
            THEN SiftDown(Put(heap, pos, parent), startpos, parentpos, newitem)
            ELSE Put(heap, pos, newitem)
    ELSE Put(heap, pos, newitem)

RECURSIVE SiftUpLoop(_, _, _)
\* heapq._siftup, its while loop: bubble the smaller child up until a leaf;
\* the result is <<heap, pos>>
SiftUpLoop(heap, pos, endpos) ==
    LET childpos == 2 * pos + 1
        rightpos == childpos + 1
    IN IF childpos < endpos
       THEN LET c == IF rightpos < endpos
                        /\ ~Lt(At(heap, childpos), At(heap, rightpos))
                     THEN rightpos ELSE childpos
            IN SiftUpLoop(Put(heap, pos, At(heap, c)), c, endpos)
       ELSE <<heap, pos>>

\* heapq._siftup(heap, pos)
SiftUp(heap, pos) ==
    LET newitem == At(heap, pos)
        r == SiftUpLoop(heap, pos, Len(heap))
    IN SiftDown(r[1], pos, r[2], newitem)

\* heapq.heappush(heap, item): the list afterwards
heappush(heap, item) ==
    SiftDown(Append(heap, item), 0, Len(heap), item)

\* heapq.heappop(heap): the item returned
heappop_item(heap) == heap[1]

\* heapq.heappop(heap): the list afterwards
heappop_rest(heap) ==
    LET lastelt == heap[Len(heap)]
        rest == SubSeq(heap, 1, Len(heap) - 1)
    IN IF rest # <<>> THEN SiftUp(Put(rest, 0, lastelt), 0) ELSE rest

(***************************************************************************)
(* Random process generators                                               *)
(***************************************************************************)
\* -ln(1 - u) for the draws of RndTiempo
NegLn(u) == CASE u = 6321 -> 1
              [] u = 9502 -> 3

\* generar_interarribo and the same expression inlined in the simulation
interarribo_de(media, u) == media * NegLn(u)

\* seleccionar_tiempo_carga: the hours for the draw u
seleccionar_tiempo_carga(u) ==
    IF u < 5000 THEN 1
    ELSE IF u < 8000 THEN 2
    ELSE IF u < 9500 THEN 3
    ELSE 4

\* the device type for the draw u_device
tipo_dispositivo(u_device) ==
    IF u_device < p_usb_c THEN "USB-C"
    ELSE IF u_device < p_usb_c + p_lightning THEN "Lightning"
    ELSE "MicroUSB"

\* tarifas: $ per hour of charge
tarifas(tipo) == CASE tipo = "USB-C" -> 300
                   [] tipo = "Lightning" -> 500
                   [] tipo = "MicroUSB" -> 1000

(***************************************************************************)
(* Exact fractions <<numerator, denominator>>, denominator > 0             *)
(***************************************************************************)
FracSum(a, b) ==
    IF a[2] = b[2] THEN <<a[1] + b[1], a[2]>>
    ELSE <<a[1] * b[2] + b[1] * a[2], a[2] * b[2]>>
FracPor(a, k) == <<a[1] * k, a[2]>>
FracEntre(a, k) == <<a[1], a[2] * k>>
FracIgual(a, b) == a[1] * b[2] = b[1] * a[2]
FracMenorIgual(a, b) == a[1] * b[2] <= b[1] * a[2]
Cero == <<0, 1>>
Cien == <<100, 1>>

(***************************************************************************)
(* Stations                                                                *)
(***************************************************************************)
\* one entry of servidores as built before the loop
ServidorLibre ==
    [ocupado |-> FALSE, device_type |-> None, etapa |-> None,
     fin_carga |-> None, fin_validacion |-> None, duracion_carga |-> None]

\* idx_libres: the 0-based indexes of the stations with ocupado False
idx_libres(servs) == {i \in 0..(Len(servs) - 1) : ~servs[i + 1].ocupado}

\* idx_libres[0]: the list is built in ascending order
\* the free station with the highest index
ultimo_libre(libres) == CHOOSE i \in libres : \A j \in libres : j <= i

primer_libre(libres) == CHOOSE i \in libres : \A j \in libres : i <= j

\* an assignment that forgets to mark the station as occupied
AsignarSinOcupar(srv, tipo_disp, t_fin_carga, dur_carga_min) ==
    [srv EXCEPT !.device_type = Some(tipo_disp),
                !.etapa = Some("cargando"), !.fin_carga = Some(t_fin_carga),
                !.duracion_carga = Some(dur_carga_min)]

\* the station dictionary after an accepted arrival is assigned to it
Asignar(srv, tipo_disp, t_fin_carga, dur_carga_min) ==
    [srv EXCEPT !.ocupado = TRUE, !.device_type = Some(tipo_disp),
                !.etapa = Some("cargando"), !.fin_carga = Some(t_fin_carga),
                !.duracion_carga = Some(dur_carga_min)]

\* a release at the end of the charge that also frees the station
LiberarCargaYPuesto(srv) ==
    [srv EXCEPT !.ocupado = FALSE, !.etapa = None, !.fin_carga = None,
                !.duracion_carga = None]

\* a release at the end of the charge that keeps the charge's end and
\* duration
LiberarCargaSoloEtapa(srv) == [srv EXCEPT !.etapa = None]

\* end_charge: "liberar la etapa de carga"; ocupado and device_type stay
LiberarCarga(srv) ==
    [srv EXCEPT !.etapa = None, !.fin_carga = None, !.duracion_carga = None]

\* end_validation: "liberar el servidor de carga"
LiberarServidor(srv) ==
    [srv EXCEPT !.ocupado = FALSE, !.device_type = None, !.etapa = None,
                !.fin_validacion = None]

\* a count that adds the devices waiting for the stand to the occupied ones
OcupadosMasCola(servs) ==
    Cardinality({i \in DOMAIN servs : servs[i].ocupado}) + Len(cola_validacion)

\* ocupados = sum(1 for srv in servidores if srv["ocupado"])
Ocupados(servs) == Cardinality({i \in DOMAIN servs : servs[i].ocupado})

\* a percentage that divides by n_servidores unguarded
PorcentajeSinGuarda(ocupados) == <<ocupados * 100, n_servidores>>

\* (ocupados / n_servidores) * 100 if n_servidores > 0 else 0.0
Porcentaje(ocupados) ==
    IF n_servidores > 0 THEN <<ocupados * 100, n_servidores>> ELSE Cero

(***************************************************************************)
(* Validation stand                                                        *)
(***************************************************************************)
\* a hand-off that queues the device even when the stand is free
EnviarSiempreACola(libre, cola, idx_ser, tipo_disp) ==
    [libre |-> libre, cola |-> Append(cola, <<idx_ser, tipo_disp>>),
     programa |-> FALSE]

\* a hand-off that takes the free stand and queues the device as well
EnviarYEncolar(libre, cola, idx_ser, tipo_disp) ==
    IF libre
    THEN [libre |-> FALSE, cola |-> Append(cola, <<idx_ser, tipo_disp>>),
          programa |-> TRUE]
    ELSE [libre |-> libre, cola |-> Append(cola, <<idx_ser, tipo_disp>>),
          programa |-> FALSE]

\* end_charge, step 2: take the stand if free (programa: an end_validation
\* is scheduled), else join the queue
EnviarAValidacion(libre, cola, idx_ser, tipo_disp) ==
    IF libre
    THEN [libre |-> FALSE, cola |-> cola, programa |-> TRUE]
    ELSE [libre |-> libre, cola |-> Append(cola, <<idx_ser, tipo_disp>>),
          programa |-> FALSE]

\* a stand that serves the device that joined the queue last
SiguienteUltimoDeCola(libre, cola) ==
    IF cola # <<>>
    THEN [libre |-> libre, cola |-> SubSeq(cola, 1, Len(cola) - 1),
          siguiente |-> Some(cola[Len(cola)])]
    ELSE [libre |-> TRUE, cola |-> cola, siguiente |-> None]

\* a stand that stays taken when the queue is empty
SiguienteSinLiberar(libre, cola) ==
    IF cola # <<>>
    THEN [libre |-> libre, cola |-> Tail(cola), siguiente |-> Some(Head(cola))]
    ELSE [libre |-> libre, cola |-> cola, siguiente |-> None]

\* a stand that is freed at every end_validation and serves nobody waiting
SiguienteAbandonaCola(libre, cola) ==
    [libre |-> TRUE, cola |-> cola, siguiente |-> None]

\* end_validation, step 2: serve the head of the queue, else free the stand
SiguienteValidacion(libre, cola) ==
    IF cola # <<>>
    THEN [libre |-> libre, cola |-> Tail(cola), siguiente |-> Some(Head(cola))]
    ELSE [libre |-> TRUE, cola |-> cola, siguiente |-> None]

(***************************************************************************)
(* Statistics                                                              *)
(***************************************************************************)
\* the accumulators as they stand
Acumuladores ==
    [acum_time_usb_c |-> acum_time_usb_c,
     acum_time_lightning |-> acum_time_lightning,
     acum_time_microusb |-> acum_time_microusb,
     rec_usb_c |-> rec_usb_c, rec_lightning |-> rec_lightning,
     rec_microusb |-> rec_microusb, recaudacion_total |-> recaudacion_total]

CampoTiempo(tipo) == CASE tipo = "USB-C" -> "acum_time_usb_c"
                       [] tipo = "Lightning" -> "acum_time_lightning"
                       [] OTHER -> "acum_time_microusb"
CampoRecaudacion(tipo) == CASE tipo = "USB-C" -> "rec_usb_c"
                            [] tipo = "Lightning" -> "rec_lightning"
                            [] OTHER -> "rec_microusb"

\* a crediting that leaves the charge out of the total revenue
AcreditarSinTotal(tipo_disp, dur) ==
    IF dur = None THEN Acumuladores
    ELSE [Acumuladores EXCEPT
            ![CampoTiempo(tipo_disp)] = @ + dur[1],
            ![CampoRecaudacion(tipo_disp)] =
                @ + tarifas(tipo_disp) * (dur[1] \div 60)]

\* a crediting that overwrites the accumulators of the type instead of
\* adding to them
AcreditarSobrescribe(tipo_disp, dur) ==
    IF dur = None THEN Acumuladores
    ELSE [Acumuladores EXCEPT
            ![CampoTiempo(tipo_disp)] = dur[1],
            ![CampoRecaudacion(tipo_disp)] =
                tarifas(tipo_disp) * (dur[1] \div 60),
            !.recaudacion_total =
                @ + tarifas(tipo_disp) * (dur[1] \div 60)]

\* a crediting that charges the hourly rate for every minute
AcreditarPorMinuto(tipo_disp, dur) ==
    IF dur = None THEN Acumuladores
    ELSE [Acumuladores EXCEPT
            ![CampoTiempo(tipo_disp)] = @ + dur[1],
            ![CampoRecaudacion(tipo_disp)] = @ + tarifas(tipo_disp) * dur[1],
            !.recaudacion_total = @ + tarifas(tipo_disp) * dur[1]]

\* end_charge: accumulate charge minutes and revenue by device type; dur is
\* servidores[idx_ser]["duracion_carga"], a multiple of 60, so dur / 60 is
\* a whole number of hours
Acreditar(tipo_disp, dur) ==
    IF dur = None THEN Acumuladores
    ELSE LET d == dur[1]
             monto == tarifas(tipo_disp) * (d \div 60)
         IN CASE tipo_disp = "USB-C" ->
                   [Acumuladores EXCEPT !.acum_time_usb_c = @ + d,
                                        !.rec_usb_c = @ + monto,
                                        !.recaudacion_total = @ + monto]
              [] tipo_disp = "Lightning" ->
                   [Acumuladores EXCEPT !.acum_time_lightning = @ + d,
                                        !.rec_lightning = @ + monto,
                                        !.recaudacion_total = @ + monto]
              [] OTHER ->
                   [Acumuladores EXCEPT !.acum_time_microusb = @ + d,
                                        !.rec_microusb = @ + monto,
                                        !.recaudacion_total = @ + monto]

\* a count that forgets the rejected devices
ContarSoloAceptadas(aceptada) ==
    IF aceptada THEN <<n_aceptadas + 1, n_rechazadas>>
    ELSE <<n_aceptadas, n_rechazadas>>

\* arrival, steps 8 and else: <<n_aceptadas, n_rechazadas>> afterwards
ContarLlegada(aceptada) ==
    IF aceptada THEN <<n_aceptadas + 1, n_rechazadas>>
    ELSE <<n_aceptadas, n_rechazadas + 1>>

\* an accumulation that restarts the elapsed time at every event
AcumularSinTiempo(id, ponderado_actual, delta_t) ==
    IF id = 1 THEN <<ponderado_actual, delta_t>>
    ELSE <<FracSum(acum_porcentaje_ponderado, ponderado_actual), delta_t>>

\* <<acum_porcentaje_ponderado, acum_tiempo_ponderado>> after the event
\* numbered id
AcumularPonderado(id, ponderado_actual, delta_t) ==
    IF id = 1 THEN <<ponderado_actual, delta_t>>
    ELSE <<FracSum(acum_porcentaje_ponderado, ponderado_actual),
           acum_tiempo_ponderado + delta_t>>

\* acum_porcentaje_ponderado / acum_tiempo_ponderado if the time is > 0
PromedioPonderado(acum, tiempo) ==
    IF tiempo > 0 THEN FracEntre(acum, tiempo) ELSE Cero

(***************************************************************************)
(* Rows of the state vector                                                *)
(***************************************************************************)
ClaveAcum == "Acum porcentaje puestos en uso (ponderado)"
ClavePromedio == "Promedio porcentaje puestos en uso (ponderado)"

\* fila0: the row "Inicio Simulacion" (its two weighted columns are keyed
\* without the suffix " (ponderado)")
Fila0(n, u_tiempo0, interarribo0) ==
    ("Iteraciones" :> 0) @@ ("Reloj" :> 0) @@
    ("Evento" :> "Inicio Simulacion") @@
    ("RND dispositivo" :> None) @@ ("Tipo dispositivo" :> None) @@
    ("RND tiempo" :> Some(u_tiempo0)) @@
    ("Tiempo entre llegadas" :> Some(interarribo0)) @@
    ("Proxima llegada" :> Some(interarribo0)) @@
    ("Cant dispositivos en puerto" :> 0) @@
    ("Porcentaje Puestos en uso" :> Cero) @@
    ("Acum porcentaje puestos en uso" :> Cero) @@
    ("Promedio porcentaje puestos en uso" :> Cero) @@
    ("RND carga" :> None) @@ ("Tiempo carga" :> None) @@
    ("Fin de carga puesto" :> [i \in 1..n |-> None]) @@
    ("Tiempo carga puesto" :> [i \in 1..n |-> None]) @@
    ("Estados puestos de validacion" :> "Libre") @@
    ("Cola de validacion" :> 0) @@
    ("Tiempo validacion" :> 0) @@
    ("Fin de validacion" :> None) @@
    ("Acumulador tiempo USB C" :> 0) @@
    ("Acumulador tiempo Lightning" :> 0) @@
    ("Acumulador tiempo MicroUSB" :> 0) @@
    ("Recaudacion USB C" :> 0) @@
    ("Recaudacion Lightning" :> 0) @@
    ("Recaudacion MicroUSB" :> 0) @@
    ("Recaudacion Total" :> 0) @@
    ("Acumulador Dispositivos Aceptados" :> 0) @@
    ("Acumulador Dispositivos Rechazados" :> 0)

\* the columns an arrival fills in (steps 3 and 7)
ColumnasLlegada(u_dev, tipo, u_t, inter, prox, rnd_carga, tiempo_carga) ==
    ("Evento" :> "Llegada dispositivo") @@
    ("RND dispositivo" :> Some(u_dev)) @@
    ("Tipo dispositivo" :> Some(tipo)) @@
    ("RND tiempo" :> Some(u_t)) @@
    ("Tiempo entre llegadas" :> Some(inter)) @@
    ("Proxima llegada" :> Some(prox)) @@
    ("RND carga" :> rnd_carga) @@ ("Tiempo carga" :> tiempo_carga)

\* the columns end_charge and end_validation fill in
ColumnasValidacion(etiqueta, largo_cola, fin_validacion, tiempo) ==
    ("Evento" :> etiqueta) @@
    ("Cola de validacion" :> largo_cola) @@
    ("Fin de validacion" :> fin_validacion) @@
    ("Tiempo validacion" :> tiempo)

\* the columns every iteration writes after the dispatch (columns 9-12,
\* 15-33 and 35-43); acum is <<acum_porcentaje_ponderado,
\* acum_tiempo_ponderado>> and ac the accumulators after the event
ColumnasCierre(servs, libre, ocupados, acum, ac, cuenta) ==
    ("Cant dispositivos en puerto" :> ocupados) @@
    ("Porcentaje Puestos en uso" :> Porcentaje(ocupados)) @@
    (ClaveAcum :> acum[1]) @@
    (ClavePromedio :> PromedioPonderado(acum[1], acum[2])) @@
    ("Fin de carga puesto" :> [i \in DOMAIN servs |-> servs[i].fin_carga]) @@
    ("Tiempo carga puesto" :>
        [i \in DOMAIN servs |-> servs[i].duracion_carga]) @@
    ("Estados puestos de validacion" :>
        IF libre THEN "Libre" ELSE "Ocupado") @@
    ("Acumulador tiempo USB C" :> ac.acum_time_usb_c) @@
    ("Acumulador tiempo Lightning" :> ac.acum_time_lightning) @@
    ("Acumulador tiempo MicroUSB" :> ac.acum_time_microusb) @@
    ("Recaudacion USB C" :> ac.rec_usb_c) @@
    ("Recaudacion Lightning" :> ac.rec_lightning) @@
    ("Recaudacion MicroUSB" :> ac.rec_microusb) @@
    ("Recaudacion Total" :> ac.recaudacion_total) @@
    ("Acumulador Dispositivos Aceptados" :> cuenta[1]) @@
    ("Acumulador Dispositivos Rechazados" :> cuenta[2])

\* the columns left as the base row sets them, or defaulted at the end:
\* "Cola de validacion" to len(cola_validacion), "Tiempo validacion" to 0
ColumnasPorDefecto(id, reloj, cola) ==
    ("Iteraciones" :> id) @@ ("Reloj" :> reloj) @@
    ("RND dispositivo" :> None) @@ ("Tipo dispositivo" :> None) @@
    ("RND tiempo" :> None) @@ ("Tiempo entre llegadas" :> None) @@
    ("Proxima llegada" :> None) @@
    ("RND carga" :> None) @@ ("Tiempo carga" :> None) @@
    ("Cola de validacion" :> Len(cola)) @@
    ("Tiempo validacion" :> 0) @@
    ("Fin de validacion" :> None)

(***************************************************************************)
(* simular_puestos_carga up to the loop                                    *)
(***************************************************************************)
Parametros ==
    {[T_max |-> t, N_max |-> n, media_interarribo |-> m,
      p_usb_c |-> p[1], p_lightning |-> p[2], p_microusb |-> p[3],
      tiempo_validacion |-> v, n_servidores |-> s] :
        t \in TMaxValues, n \in NMaxValues, m \in MediaValues,
        p \in ProbValues, v \in TiempoValidacionValues,
        s \in 0..MaxServidores}

\* one station, a horizon of 120 minutes and a cap of 10 events
EscenarioA ==
    {[T_max |-> 120, N_max |-> 10, media_interarribo |-> m,
      p_usb_c |-> p[1], p_lightning |-> p[2], p_microusb |-> p[3],
      tiempo_validacion |-> v, n_servidores |-> 1] :
        m \in MediaValues, p \in ProbValues, v \in TiempoValidacionValues}

\* a mean inter-arrival time of 0: every arrival is due at minute 0
EscenarioSinTiempo ==
    {[T_max |-> t, N_max |-> 3, media_interarribo |-> 0,
      p_usb_c |-> p[1], p_lightning |-> p[2], p_microusb |-> p[3],
      tiempo_validacion |-> 10, n_servidores |-> 1] :
        t \in TMaxValues, p \in ProbValues}

\* three stations and a horizon that lets three devices finish charging
\* before the first of them leaves the stand
EscenarioCola ==
    {[T_max |-> 250, N_max |-> n, media_interarribo |-> m,
      p_usb_c |-> p[1], p_lightning |-> p[2], p_microusb |-> p[3],
      tiempo_validacion |-> 70, n_servidores |-> 3] :
        n \in {MaxN, 10}, m \in MediaValues, p \in ProbValues}

\* the state before the loop, for the parameters of the set P
Inicio(P) ==
    /\ params \in P
    /\ \E u_tiempo0 \in RndTiempo :
         LET interarribo0 == interarribo_de(params.media_interarribo, u_tiempo0)
         IN /\ vector_estado =
                 <<Fila0(params.n_servidores, u_tiempo0, interarribo0)>>
            /\ eventos_futuros =
                 heappush(<<>>, Evento(interarribo0, "arrival", None, 0))
    /\ contador_global = 1
    /\ servidores = [i \in 1..params.n_servidores |-> ServidorLibre]
    /\ puesto_validacion_libre = TRUE
    /\ cola_validacion = <<>>
    /\ evento = None
    /\ clock = 0
    /\ evento_id = 0
    /\ n_aceptadas = 0
    /\ n_rechazadas = 0
    /\ recaudacion_total = 0
    /\ reloj_previo = 0
    /\ n_ocupados_previo = 0
    /\ acum_porcentaje_ponderado = Cero
    /\ acum_tiempo_ponderado = 0
    /\ acum_time_usb_c = 0
    /\ acum_time_lightning = 0
    /\ acum_time_microusb = 0
    /\ rec_usb_c = 0
    /\ rec_lightning = 0
    /\ rec_microusb = 0
    /\ pc = "loop"
    /\ resumen = None
    /\ form = None
    /\ error_msg = None
    /\ procesados = <<>>

Init == Inicio(Parametros \cup EscenarioA \cup EscenarioSinTiempo)

InitCola == Inicio(EscenarioCola)

(***************************************************************************)
(* The main loop: one action per kind of event processed, and the exits    *)
(***************************************************************************)
\* while eventos_futuros and evento_id < N_max
Continua == eventos_futuros # <<>> /\ evento_id < N_max

\* a horizon test that never stops the loop
NuncaExcede(t_evt) == FALSE

\* if t_evt > T_max: break
ExcedeTmax(t_evt) == t_evt > T_max

\* evento = heapq.heappop(eventos_futuros)
Tomado == heappop_item(eventos_futuros)
\* a pop that leaves the event in the heap
RestoSinSacar == eventos_futuros

Resto == heappop_rest(eventos_futuros)

\* a row whose elapsed time is weighted by the occupancy the event leaves
\* instead of the one it found
RegistrarConOcupadosActuales(columnas, servs, libre, cola, ac, cuenta) ==
    LET t_evt == Tomado.tiempo
        delta_t == t_evt - reloj_previo
        id == evento_id + 1
        ocupados == Ocupados(servs)
        porcentaje_previo == Porcentaje(ocupados)
        ponderado_actual == FracPor(porcentaje_previo, delta_t)
        acum == AcumularPonderado(id, ponderado_actual, delta_t)
        fila == columnas
                @@ ColumnasCierre(servs, libre, ocupados, acum, ac, cuenta)
                @@ ColumnasPorDefecto(id, t_evt, cola)
    IN /\ evento' = Some(Tomado)
       /\ clock' = t_evt
       /\ reloj_previo' = t_evt
       /\ evento_id' = id
       /\ servidores' = servs
       /\ puesto_validacion_libre' = libre
       /\ cola_validacion' = cola
       /\ acum_time_usb_c' = ac.acum_time_usb_c
       /\ acum_time_lightning' = ac.acum_time_lightning
       /\ acum_time_microusb' = ac.acum_time_microusb
       /\ rec_usb_c' = ac.rec_usb_c
       /\ rec_lightning' = ac.rec_lightning
       /\ rec_microusb' = ac.rec_microusb
       /\ recaudacion_total' = ac.recaudacion_total
       /\ n_aceptadas' = cuenta[1]
       /\ n_rechazadas' = cuenta[2]
       /\ acum_porcentaje_ponderado' = acum[1]
       /\ acum_tiempo_ponderado' = acum[2]
       /\ n_ocupados_previo' = ocupados
       /\ vector_estado' = Append(vector_estado, fila)
       /\ procesados' = Append(procesados, Tomado)
       /\ UNCHANGED <<params, pc, resumen, form, error_msg>>

\* What every processed event does besides its dispatch: advance the clock,
\* number the row, weight the previous occupancy by the elapsed time, fill
\* in the closing columns and append the row.  servs, libre, cola, ac and
\* cuenta are the state the dispatch leaves.
Registrar(columnas, servs, libre, cola, ac, cuenta) ==
    LET t_evt == Tomado.tiempo
        delta_t == t_evt - reloj_previo
        id == evento_id + 1
        ocupados == Ocupados(servs)
        porcentaje_previo == Porcentaje(n_ocupados_previo)
        ponderado_actual == FracPor(porcentaje_previo, delta_t)
        acum == AcumularPonderado(id, ponderado_actual, delta_t)
        fila == columnas
                @@ ColumnasCierre(servs, libre, ocupados, acum, ac, cuenta)
                @@ ColumnasPorDefecto(id, t_evt, cola)
    IN /\ evento' = Some(Tomado)
       /\ clock' = t_evt
       /\ reloj_previo' = t_evt
       /\ evento_id' = id
       /\ servidores' = servs
       /\ puesto_validacion_libre' = libre
       /\ cola_validacion' = cola
       /\ acum_time_usb_c' = ac.acum_time_usb_c
       /\ acum_time_lightning' = ac.acum_time_lightning
       /\ acum_time_microusb' = ac.acum_time_microusb
       /\ rec_usb_c' = ac.rec_usb_c
       /\ rec_lightning' = ac.rec_lightning
       /\ rec_microusb' = ac.rec_microusb
       /\ recaudacion_total' = ac.recaudacion_total
       /\ n_aceptadas' = cuenta[1]
       /\ n_rechazadas' = cuenta[2]
       /\ acum_porcentaje_ponderado' = acum[1]
       /\ acum_tiempo_ponderado' = acum[2]
       /\ n_ocupados_previo' = ocupados
       /\ vector_estado' = Append(vector_estado, fila)
       /\ procesados' = Append(procesados, Tomado)
       /\ UNCHANGED <<params, pc, resumen, form, error_msg>>

\* Case 1: evento.tipo == "arrival"
Llegada ==
    /\ pc = "loop"
    /\ Continua
    /\ ~ExcedeTmax(Tomado.tiempo)
    /\ Tomado.tipo = "arrival"
    /\ \E u_device \in RndDispositivo, u_tiempo \in RndTiempo :
         LET t_evt == Tomado.tiempo
             tipo_disp == tipo_dispositivo(u_device)
             interarribo == interarribo_de(media_interarribo, u_tiempo)
             prox_llegada == t_evt + interarribo
             libres == idx_libres(servidores)
         IN IF libres # {}
            THEN \E u_tiempo_carga \in RndCarga :
                   LET idx_ser == primer_libre(libres)
                       carga_horas == seleccionar_tiempo_carga(u_tiempo_carga)
                       dur_carga_min == carga_horas * 60
                       t_fin_carga == t_evt + dur_carga_min
                       servs == [servidores EXCEPT ![idx_ser + 1] =
                                   Asignar(@, tipo_disp, t_fin_carga,
                                           dur_carga_min)]
                       heap1 == heappush(Resto,
                                   Evento(t_fin_carga, "end_charge",
                                          <<idx_ser, tipo_disp, t_fin_carga>>,
                                          contador_global))
                   IN /\ eventos_futuros' =
                           heappush(heap1, Evento(prox_llegada, "arrival",
                                                  None, contador_global + 1))
                      /\ contador_global' = contador_global + 2
                      /\ Registrar(
                           ColumnasLlegada(u_device, tipo_disp, u_tiempo,
                                           interarribo, prox_llegada,
                                           Some(u_tiempo_carga),
                                           Some(dur_carga_min)),
                           servs, puesto_validacion_libre, cola_validacion,
                           Acumuladores, ContarLlegada(TRUE))
            ELSE /\ eventos_futuros' =
                      heappush(Resto, Evento(prox_llegada, "arrival", None,
                                             contador_global))
                 /\ contador_global' = contador_global + 1
                 /\ Registrar(
                      ColumnasLlegada(u_device, tipo_disp, u_tiempo,
                                      interarribo, prox_llegada, None, None),
                      servidores, puesto_validacion_libre, cola_validacion,
                      Acumuladores, ContarLlegada(FALSE))

\* Case 2: evento.tipo == "end_charge"
FinCarga ==
    /\ pc = "loop"
    /\ Continua
    /\ ~ExcedeTmax(Tomado.tiempo)
    /\ Tomado.tipo = "end_charge"
    /\ LET t_evt == Tomado.tiempo
           idx_ser == Tomado.data[1]
           tipo_disp == Tomado.data[2]
           ac == Acreditar(tipo_disp, servidores[idx_ser + 1].duracion_carga)
           servs == [servidores EXCEPT ![idx_ser + 1] = LiberarCarga(@)]
           v == EnviarAValidacion(puesto_validacion_libre, cola_validacion,
                                  idx_ser, tipo_disp)
           t_fin_valid == t_evt + tiempo_validacion
       IN IF v.programa
          THEN /\ eventos_futuros' =
                    heappush(Resto,
                        Evento(t_fin_valid, "end_validation",
                               <<idx_ser, tipo_disp, t_fin_valid>>,
                               contador_global))
               /\ contador_global' = contador_global + 1
               /\ Registrar(
                    ColumnasValidacion("Fin de carga", Len(v.cola),
                                       Some(t_fin_valid), tiempo_validacion),
                    servs, v.libre, v.cola, ac,
                    <<n_aceptadas, n_rechazadas>>)
          ELSE /\ eventos_futuros' = Resto
               /\ contador_global' = contador_global
               /\ Registrar(
                    ColumnasValidacion("Fin de carga", Len(v.cola), None, 0),
                    servs, v.libre, v.cola, ac,
                    <<n_aceptadas, n_rechazadas>>)

\* Case 3: evento.tipo == "end_validation"
FinValidacion ==
    /\ pc = "loop"
    /\ Continua
    /\ ~ExcedeTmax(Tomado.tiempo)
    /\ Tomado.tipo = "end_validation"
    /\ LET t_evt == Tomado.tiempo
           idx_ser == Tomado.data[1]
           servs == [servidores EXCEPT ![idx_ser + 1] = LiberarServidor(@)]
           s == SiguienteValidacion(puesto_validacion_libre, cola_validacion)
           t_fin_valid_next == t_evt + tiempo_validacion
       IN IF s.siguiente # None
          THEN LET next_idx_ser == s.siguiente[1][1]
                   next_tipo_disp == s.siguiente[1][2]
               IN /\ eventos_futuros' =
                       heappush(Resto,
                           Evento(t_fin_valid_next, "end_validation",
                                  <<next_idx_ser, next_tipo_disp,
                                    t_fin_valid_next>>,
                                  contador_global))
                  /\ contador_global' = contador_global + 1
                  /\ Registrar(
                       ColumnasValidacion("Fin de validacion", Len(s.cola),
                                          Some(t_fin_valid_next),
                                          tiempo_validacion),
                       servs, s.libre, s.cola, Acumuladores,
                       <<n_aceptadas, n_rechazadas>>)
          ELSE /\ eventos_futuros' = Resto
               /\ contador_global' = contador_global
               /\ Registrar(
                    ColumnasValidacion("Fin de validacion", 0, None, 0),
                    servs, s.libre, s.cola, Acumuladores,
                    <<n_aceptadas, n_rechazadas>>)

\* The code after the loop: the summary reads the weighted average of the
\* last row by the key the loop's rows carry, and the function returns; a
\* row without that key raises KeyError.
Final ==
    LET ultima == vector_estado[Len(vector_estado)]
    IN IF ClavePromedio \in DOMAIN ultima
       THEN /\ pc' = "returned"
            /\ resumen' = Some([n_aceptadas |-> n_aceptadas,
                                n_rechazadas |-> n_rechazadas,
                                recaudacion_total |-> recaudacion_total,
                                utilizacion_promedio |-> ultima[ClavePromedio]])
       ELSE /\ pc' = "KeyError"
            /\ resumen' = None

\* the event popped lies beyond T_max: break, then the summary
CorteTmax ==
    /\ pc = "loop"
    /\ Continua
    /\ ExcedeTmax(Tomado.tiempo)
    /\ evento' = Some(Tomado)
    /\ eventos_futuros' = Resto
    /\ Final
    /\ UNCHANGED <<params, servidores, puesto_validacion_libre,
                   cola_validacion, contador_global, vector_estado, clock,
                   evento_id, n_aceptadas, n_rechazadas, recaudacion_total,
                   reloj_previo, n_ocupados_previo, acum_porcentaje_ponderado,
                   acum_tiempo_ponderado, acum_time_usb_c, acum_time_lightning,
                   acum_time_microusb, rec_usb_c, rec_lightning, rec_microusb,
                   form, error_msg, procesados>>

\* the loop condition fails (N_max events processed, or no event left):
\* the summary
FinBucle ==
    /\ pc = "loop"
    /\ ~Continua
    /\ Final
    /\ UNCHANGED <<params, servidores, puesto_validacion_libre,
                   cola_validacion, eventos_futuros, contador_global, evento,
                   vector_estado, clock, evento_id, n_aceptadas, n_rechazadas,
                   recaudacion_total, reloj_previo, n_ocupados_previo,
                   acum_porcentaje_ponderado, acum_tiempo_ponderado,
                   acum_time_usb_c, acum_time_lightning, acum_time_microusb,
                   rec_usb_c, rec_lightning, rec_microusb, form, error_msg,
                   procesados>>

Next == Llegada \/ FinCarga \/ FinValidacion \/ CorteTmax \/ FinBucle

Spec == Init /\ [][Next]_vars

SpecCola == InitCola /\ [][Next]_vars

\* two stations, every validation time, the cap or the horizon ending the
\* run
EscenarioSalida ==
    {[T_max |-> 200, N_max |-> MaxN, media_interarribo |-> m,
      p_usb_c |-> p[1], p_lightning |-> p[2], p_microusb |-> p[3],
      tiempo_validacion |-> v, n_servidores |-> 2] :
        m \in MediaValues, p \in ProbValues, v \in TiempoValidacionValues}

InitSalida == Inicio(EscenarioSalida)

\* the while loop keeps iterating for as long as its condition holds
SpecJusta == InitSalida /\ [][Next]_vars /\ WF_vars(Next)

(***************************************************************************)
(* Properties                                                              *)
(***************************************************************************)
UltimaFila == vector_estado[Len(vector_estado)]

\* the last event popped was processed (it was not discarded by the break)
Procesado(tipo) ==
    /\ evento # None
    /\ evento[1].tipo = tipo
    /\ UltimaFila["Iteraciones"] = evento_id
    /\ evento_id > 0
    /\ UltimaFila["Reloj"] = evento[1].tiempo
    /\ ~(pc # "loop" /\ evento[1].tiempo > T_max)

\* station i (0-based) has its device at the validation stand
EnValidacion(i) ==
    \E k \in DOMAIN eventos_futuros :
        /\ eventos_futuros[k].tipo = "end_validation"
        /\ eventos_futuros[k].data[1] = i

\* station i (0-based) has its device waiting in the validation queue
EnCola(i) == \E k \in DOMAIN cola_validacion : cola_validacion[k][1] = i

C2_CorridaSinEventos ==
    (pc # "loop" /\ Len(vector_estado) = 1) =>
        /\ pc = "returned"
        /\ resumen = Some([n_aceptadas |-> 0, n_rechazadas |-> 0,
                           recaudacion_total |-> 0,
                           utilizacion_promedio |-> Cero])

\* the rows up to row i that are arrivals
LlegadasHasta(i) ==
    {j \in 1..i : vector_estado[j]["Evento"] = "Llegada dispositivo"}

\* C3: at every row, accepted + rejected is the number of Arrival events
\* processed so far.
C3_AceptadasMasRechazadas ==
    \A i \in DOMAIN vector_estado :
        vector_estado[i]["Acumulador Dispositivos Aceptados"]
          + vector_estado[i]["Acumulador Dispositivos Rechazados"]
        = Cardinality(LlegadasHasta(i))

\* C3 witness: a row after both an accepted and a rejected arrival.
C3_Witness ==
    /\ UltimaFila["Acumulador Dispositivos Aceptados"] >= 1
    /\ UltimaFila["Acumulador Dispositivos Rechazados"] >= 1
    /\ Cardinality(LlegadasHasta(Len(vector_estado))) >= 3

\* C4: at every row the number of occupied stations is between 0 and
\* n_servidores.
C4_OcupadosEnRango ==
    \A i \in DOMAIN vector_estado :
        /\ 0 <= vector_estado[i]["Cant dispositivos en puerto"]
        /\ vector_estado[i]["Cant dispositivos en puerto"] <= n_servidores

\* C4 witness: an Arrival is processed when every station is occupied and a
\* device waits in the validation queue.
C4_Witness ==
    /\ Procesado("arrival")
    /\ n_servidores >= 2
    /\ UltimaFila["Cant dispositivos en puerto"] = n_servidores
    /\ UltimaFila["Cola de validacion"] >= 1

\* C5: at every row, and in every state, a free validation stand has an
\* empty queue.
C5_LibreImplicaColaVacia ==
    /\ puesto_validacion_libre => cola_validacion = <<>>
    /\ \A i \in DOMAIN vector_estado :
         vector_estado[i]["Estados puestos de validacion"] = "Libre" =>
            vector_estado[i]["Cola de validacion"] = 0

\* C5 witness: the stand becomes free again after a device had to queue.
C5_Witness ==
    /\ Procesado("end_validation")
    /\ puesto_validacion_libre
    /\ \E i \in DOMAIN vector_estado :
         vector_estado[i]["Cola de validacion"] >= 1

\* C6: the event popped precedes, in creation order, every pending event
\* with the same time.
C6_EmpatePorOrden ==
    evento # None =>
        \A k \in DOMAIN eventos_futuros :
            eventos_futuros[k].tiempo = evento[1].tiempo =>
                evento[1].orden < eventos_futuros[k].orden

\* C6 witness: an end_charge is processed while an arrival created after
\* it and due at the same time is pending.
C6_Witness ==
    /\ Procesado("end_charge")
    /\ \E k \in DOMAIN eventos_futuros :
         /\ eventos_futuros[k].tipo = "arrival"
         /\ eventos_futuros[k].tiempo = evento[1].tiempo
         /\ eventos_futuros[k].orden > evento[1].orden

\* the step that pops an event and discards it
Descarte == pc = "loop" /\ pc' # "loop" /\ evento' # evento

\* C7: every row has Reloj <= T_max and at most N_max rows follow the seed
\* row; the step that discards the event beyond T_max changes no row, no
\* station, no validation state and no counter.
C7_CorteSinEfecto ==
    /\ [](/\ \A i \in DOMAIN vector_estado :
               vector_estado[i]["Reloj"] <= T_max
          /\ Len(vector_estado) - 1 <= N_max
          /\ evento_id <= N_max)
    /\ [][Descarte =>
            /\ evento'[1].tiempo > T_max
            /\ UNCHANGED <<vector_estado, servidores, puesto_validacion_libre,
                           cola_validacion, clock, evento_id, n_aceptadas,
                           n_rechazadas, recaudacion_total, acum_time_usb_c,
                           acum_time_lightning, acum_time_microusb, rec_usb_c,
                           rec_lightning, rec_microusb,
                           acum_porcentaje_ponderado, acum_tiempo_ponderado>>
            /\ pc' = "returned" =>
                  /\ resumen'[1].n_aceptadas = n_aceptadas
                  /\ resumen'[1].n_rechazadas = n_rechazadas
                  /\ resumen'[1].recaudacion_total = recaudacion_total]_vars

\* C7 witness: the run ended by discarding an end_charge beyond T_max after
\* processing some events.
C7_Witness ==
    /\ pc = "returned"
    /\ evento[1].tiempo > T_max
    /\ evento[1].tipo = "end_charge"
    /\ Len(vector_estado) > 2

\* the weighted average of a row, under the key the row carries
PromedioDe(fila) ==
    IF ClavePromedio \in DOMAIN fila THEN fila[ClavePromedio]
    ELSE fila["Promedio porcentaje puestos en uso"]

\* C8: at every row the time-weighted average occupancy is in [0, 100].
C8_PromedioEnRango ==
    \A i \in DOMAIN vector_estado :
        /\ FracMenorIgual(Cero, PromedioDe(vector_estado[i]))
        /\ FracMenorIgual(PromedioDe(vector_estado[i]), Cien)

\* C8 witness: a row, three events after the stations were first used, with
\* an average strictly between 0 and 100.
C8_Witness ==
    /\ Len(vector_estado) >= 4
    /\ ~FracMenorIgual(PromedioDe(UltimaFila), Cero)
    /\ ~FracMenorIgual(Cien, PromedioDe(UltimaFila))
    /\ ~FracMenorIgual(PromedioDe(vector_estado[Len(vector_estado) - 2]), Cero)

\* C9: at every row the total revenue is the sum of the three revenues.
C9_TotalEsSuma ==
    \A i \in DOMAIN vector_estado :
        vector_estado[i]["Recaudacion Total"]
        = vector_estado[i]["Recaudacion USB C"]
          + vector_estado[i]["Recaudacion Lightning"]
          + vector_estado[i]["Recaudacion MicroUSB"]

\* C9 witness: a row with revenue from two device types.
C9_Witness ==
    /\ UltimaFila["Recaudacion MicroUSB"] > 0
    /\ UltimaFila["Recaudacion USB C"] > 0

ColumnasAcumuladas ==
    {"Acumulador tiempo USB C", "Acumulador tiempo Lightning",
     "Acumulador tiempo MicroUSB", "Recaudacion USB C",
     "Recaudacion Lightning", "Recaudacion MicroUSB"}

\* C10: from one row to the next no revenue and no charge-minute
\* accumulator decreases, and they change only on "Fin de carga" rows.
C10_AcumuladoresMonotonos ==
    \A i \in 2..Len(vector_estado) :
        \A c \in ColumnasAcumuladas :
            /\ vector_estado[i][c] >= vector_estado[i - 1][c]
            /\ vector_estado[i]["Evento"] # "Fin de carga" =>
                  vector_estado[i][c] = vector_estado[i - 1][c]

\* C10 witness: a second Lightning charge has just been credited on top of
\* an earlier one.
C10_Witness ==
    /\ Procesado("end_charge")
    /\ UltimaFila["Acumulador tiempo Lightning"] >= 120
    /\ UltimaFila["Recaudacion Lightning"] >= 1000
    /\ \E i \in 2..(Len(vector_estado) - 1) :
         /\ vector_estado[i]["Evento"] = "Fin de carga"
         /\ vector_estado[i]["Recaudacion Lightning"] > 0

ColumnasFraccion == {"Porcentaje Puestos en uso", ClaveAcum, ClavePromedio}

\* no division by zero was needed to fill in the row
SinDivisionPorCero(fila) ==
    \A c \in ColumnasFraccion \cap DOMAIN fila : fila[c][2] > 0

\* C11: with n_servidores = 0 every Arrival processed is rejected, no
\* end_charge or end_validation is ever scheduled, every revenue stays 0 on
\* every row, no percentage divides by zero, and a run that processed an
\* event returns its summary.
C11_SinPuestos ==
    n_servidores = 0 =>
        /\ n_aceptadas = 0
        /\ \A i \in DOMAIN vector_estado :
             /\ vector_estado[i]["Acumulador Dispositivos Aceptados"] = 0
             /\ vector_estado[i]["Acumulador Dispositivos Rechazados"]
                  = Cardinality(LlegadasHasta(i))
             /\ vector_estado[i]["Evento"]
                  \in {"Inicio Simulacion", "Llegada dispositivo"}
             /\ vector_estado[i]["Recaudacion Total"] = 0
             /\ vector_estado[i]["Recaudacion USB C"] = 0
             /\ vector_estado[i]["Recaudacion Lightning"] = 0
             /\ vector_estado[i]["Recaudacion MicroUSB"] = 0
             /\ SinDivisionPorCero(vector_estado[i])
        /\ \A k \in DOMAIN eventos_futuros :
             eventos_futuros[k].tipo = "arrival"
        /\ evento # None => evento[1].tipo = "arrival"
        /\ (pc # "loop" /\ Len(vector_estado) > 1) => pc = "returned"

\* C11 witness: a run without stations returned after rejecting arrivals.
C11_Witness ==
    /\ n_servidores = 0
    /\ pc = "returned"
    /\ n_rechazadas >= 2
    /\ UltimaFila["Evento"] = "Llegada dispositivo"

\* the stand was free when the last event was popped
LibreAntes ==
    vector_estado[Len(vector_estado) - 1]["Estados puestos de validacion"]
        = "Libre"

\* the pending end_validation events of station i (0-based) due at time t
FinValidacionPendiente(i, t) ==
    {k \in DOMAIN eventos_futuros :
        /\ eventos_futuros[k].tipo = "end_validation"
        /\ eventos_futuros[k].data[1] = i
        /\ eventos_futuros[k].tiempo = t}

\* C12 (as stated): with tiempo_validacion = 0 every ChargeComplete
\* processed has, as the very next event processed, the ValidationComplete
\* of the same device at the same clock time.
C12_FinValidacionInmediato ==
    tiempo_validacion = 0 =>
        \A i \in 1..(Len(procesados) - 1) :
            procesados[i].tipo = "end_charge" =>
                /\ procesados[i + 1].tipo = "end_validation"
                /\ procesados[i + 1].data[1] = procesados[i].data[1]
                /\ procesados[i + 1].tiempo = procesados[i].tiempo

\* C12 (amended): with tiempo_validacion = 0 a ChargeComplete processed
\* while the stand is free schedules the ValidationComplete of its device at
\* the same clock time, and it is the next event to pop when no other event
\* is pending at that time; every ValidationComplete processed comes after
\* the ChargeComplete of its device, at the same clock time, and only events
\* created before it and due at that same time are processed in between.
C12_FinValidacionMismoReloj ==
    tiempo_validacion = 0 =>
        /\ \A j \in DOMAIN procesados :
             procesados[j].tipo = "end_validation" =>
                \E i \in 1..(j - 1) :
                    /\ procesados[i].tipo = "end_charge"
                    /\ procesados[i].data[1] = procesados[j].data[1]
                    /\ procesados[i].tiempo = procesados[j].tiempo
                    /\ \A k \in (i + 1)..(j - 1) :
                         /\ procesados[k].tiempo = procesados[j].tiempo
                         /\ procesados[k].orden < procesados[j].orden
        /\ (Procesado("end_charge") /\ LibreAntes) =>
             LET pend == FinValidacionPendiente(evento[1].data[1], clock)
             IN /\ Cardinality(pend) = 1
                /\ (\A k \in DOMAIN eventos_futuros :
                       eventos_futuros[k].tiempo = clock => k \in pend)
                   => 1 \in pend

\* C12 witness: with tiempo_validacion = 0 an arrival is processed between
\* a ChargeComplete and the ValidationComplete of the same device.
C12_Witness ==
    /\ tiempo_validacion = 0
    /\ \E i \in 1..(Len(procesados) - 2) :
         /\ procesados[i].tipo = "end_charge"
         /\ procesados[i + 1].tipo = "arrival"
         /\ procesados[i + 2].tipo = "end_validation"
         /\ procesados[i + 2].data[1] = procesados[i].data[1]
         /\ procesados[i + 2].tiempo = procesados[i].tiempo

\* the rows of two end_charge events due at the same time, the first of them
\* processed while the stand was free: i and j index procesados, whose k-th
\* event wrote row k + 1
FinCargaEmpatados ==
    {ij \in (DOMAIN procesados) \X (DOMAIN procesados) :
        /\ ij[1] < ij[2]
        /\ procesados[ij[1]].tipo = "end_charge"
        /\ procesados[ij[2]].tipo = "end_charge"
        /\ procesados[ij[1]].tiempo = procesados[ij[2]].tiempo
        /\ vector_estado[ij[1]]["Estados puestos de validacion"] = "Libre"}

\* C13: when two devices finish charging at the same time and the stand is
\* free, the end_charge created first is processed first and takes the stand
\* (its row shows queue length 0 and a validation end), and the second one
\* is queued (its row shows queue length 1 and no validation end).
C13_PrimeroCreadoTomaPuesto ==
    \A ij \in FinCargaEmpatados :
        LET primera == vector_estado[ij[1] + 1]
            segunda == vector_estado[ij[2] + 1]
        IN /\ procesados[ij[1]].orden < procesados[ij[2]].orden
           /\ primera["Cola de validacion"] = 0
           /\ primera["Estados puestos de validacion"] = "Ocupado"
           /\ primera["Fin de validacion"]
                = Some(procesados[ij[1]].tiempo + tiempo_validacion)
           /\ segunda["Cola de validacion"] = 1
           /\ segunda["Fin de validacion"] = None

\* C13 witness: two end_charge events tied in time were processed one right
\* after the other with a positive validation time, the stand being free
\* before the first, and the second device is in the queue.
C13_Witness ==
    /\ tiempo_validacion > 0
    /\ Procesado("end_charge")
    /\ <<Len(procesados) - 1, Len(procesados)>> \in FinCargaEmpatados
    /\ Len(cola_validacion) = 1
    /\ cola_validacion[1][1] = evento[1].data[1]

\* the run has one station, T_max = 120 and N_max = 10, its first arrival
\* was processed and drew the next arrival beyond T_max
SoloPrimeraLlegada ==
    /\ n_servidores = 1
    /\ T_max = 120
    /\ N_max = 10
    /\ Len(vector_estado) >= 2
    /\ vector_estado[2]["Proxima llegada"] # None
    /\ vector_estado[2]["Proxima llegada"][1] > T_max

\* C14: with one station, T_max = 120, N_max = 10 and only the first
\* arrival within the horizon, exactly one arrival is processed, it is
\* accepted and none is rejected (on every row and in the summary), and the
\* station is occupied on every row from the arrival's up to the row of its
\* end_charge.
C14_UnaLlegadaUnPuesto ==
    SoloPrimeraLlegada =>
        /\ {k \in DOMAIN procesados : procesados[k].tipo = "arrival"} = {1}
        /\ n_aceptadas = 1
        /\ n_rechazadas = 0
        /\ \A i \in 2..Len(vector_estado) :
             /\ vector_estado[i]["Acumulador Dispositivos Aceptados"] = 1
             /\ vector_estado[i]["Acumulador Dispositivos Rechazados"] = 0
             /\ (\A k \in 1..(i - 2) : procesados[k].tipo # "end_charge")
                => vector_estado[i]["Cant dispositivos en puerto"] = 1
        /\ (\A k \in DOMAIN procesados : procesados[k].tipo # "end_charge")
           => servidores[1].ocupado
        /\ pc = "returned" =>
             /\ resumen[1].n_aceptadas = 1
             /\ resumen[1].n_rechazadas = 0

\* C14 witness: such a run returned after processing the arrival and its
\* end_charge.
C14_Witness ==
    /\ SoloPrimeraLlegada
    /\ pc = "returned"
    /\ \E k \in DOMAIN procesados : procesados[k].tipo = "end_charge"

(***************************************************************************)
(* index(): the POST handler that parses the form, validates it and calls  *)
(* simular_puestos_carga.  The text of a field is an integer literal       *)
(* ("entero", its value), a decimal literal ("decimal", its value in units *)
(* of 1e-7) or anything else ("texto"); a float is its value in units of   *)
(* 1e-7.  In this specification params holds the keyword arguments of the  *)
(* call as parsed, or None while no call was made.                         *)
(***************************************************************************)
\* 1.0 in units of 1e-7
Uno == 10000000

Entero(n) == Some([clase |-> "entero", valor |-> n])
Decimal(n) == Some([clase |-> "decimal", valor |-> n])
Texto == Some([clase |-> "texto", valor |-> 0])

\* the forms posted: every field absent, well formed, or wrong in one of
\* the ways the handler can meet
Formularios ==
    [T_max : {None, Entero(200), Entero(-1), Texto},
     N_max : {Entero(MaxN), Entero(-1), Decimal(15000000)},
     media_interarribo : {Entero(60), Entero(0), Decimal(-5000000)},
     tiempo_validacion : {Entero(10), Entero(-1)},
     p_usb_c : {None, Decimal(4500005), Decimal(4500020), Decimal(-1000000)},
     p_lightning : {Decimal(2500000), Decimal(8000000)},
     p_microusb : {Decimal(3000000)},
     n_servidores : {None, Entero(1), Entero(0), Entero(-1)}]

\* request.form.get(campo, defecto)
get(f, campo, defecto) == IF f[campo] = None THEN defecto[1] ELSE f[campo][1]

\* float(texto): the value, or None for ValueError
float(texto) ==
    CASE texto.clase = "entero" -> Some(texto.valor * Uno)
      [] texto.clase = "decimal" -> Some(texto.valor)
      [] OTHER -> None

\* int(texto): the value, or None for ValueError (a decimal literal too)
int(texto) == IF texto.clase = "entero" THEN Some(texto.valor) ELSE None

\* the conversions of the try block, each field with its default
Convertidos(f) ==
    [T_max |-> float(get(f, "T_max", Entero(0))),
     N_max |-> int(get(f, "N_max", Entero(0))),
     media_interarribo |-> float(get(f, "media_interarribo", Entero(13))),
     tiempo_validacion |-> float(get(f, "tiempo_validacion", Entero(2))),
     p_usb_c |-> float(get(f, "p_usb_c", Decimal(4500000))),
     p_lightning |-> float(get(f, "p_lightning", Decimal(2500000))),
     p_microusb |-> float(get(f, "p_microusb", Decimal(3000000))),
     n_servidores |-> int(get(f, "n_servidores", Entero(8)))]

Abs(x) == IF x < 0 THEN -x ELSE x

\* a validation whose second test discards the outcome of the first
ValidarSobrescribe(a) ==
    IF a.T_max < 0 \/ a.N_max < 0 \/ a.tiempo_validacion < 0
       \/ a.media_interarribo < 0
    THEN Some("Los valores numericos no pueden ser negativos.")
    ELSE None

\* the two tests on the converted values: error_msg afterwards
Validar(a) ==
    LET suma_probs == a.p_usb_c + a.p_lightning + a.p_microusb
        error1 ==
            IF Abs(suma_probs - Uno) > Uno \div 1000000
               \/ (a.p_usb_c < 0 \/ a.p_lightning < 0 \/ a.p_microusb < 0)
            THEN Some("Los porcentajes de USB-C, Lightning y MicroUSB deben sumar 1.0 y no pueden ser negativos.")
            ELSE None
    IN IF a.T_max < 0 \/ a.N_max < 0 \/ a.tiempo_validacion < 0
          \/ a.media_interarribo < 0
       THEN Some("Los valores numericos no pueden ser negativos.")
       ELSE error1

\* error_msg when the handler leaves the try statement
ErrorDe(f) ==
    LET c == Convertidos(f)
    IN IF \E campo \in DOMAIN c : c[campo] = None
       THEN Some("Por favor, ingrese valores numericos validos en todos los campos.")
       ELSE Validar([campo \in DOMAIN c |-> c[campo][1]])

InitIndex ==
    /\ form \in {Some(f) : f \in Formularios}
    /\ pc = "index"
    /\ error_msg = None
    /\ params = None
    /\ vector_estado = <<>>
    /\ resumen = None
    /\ eventos_futuros = <<>>
    /\ servidores = <<>>
    /\ cola_validacion = <<>>
    /\ procesados = <<>>
    /\ evento = None
    /\ puesto_validacion_libre = TRUE
    /\ contador_global = 0
    /\ clock = 0
    /\ evento_id = 0
    /\ n_aceptadas = 0
    /\ n_rechazadas = 0
    /\ recaudacion_total = 0
    /\ reloj_previo = 0
    /\ n_ocupados_previo = 0
    /\ acum_porcentaje_ponderado = Cero
    /\ acum_tiempo_ponderado = 0
    /\ acum_time_usb_c = 0
    /\ acum_time_lightning = 0
    /\ acum_time_microusb = 0
    /\ rec_usb_c = 0
    /\ rec_lightning = 0
    /\ rec_microusb = 0

\* index() on a POST: with an error the template is rendered with the
\* message and no result; otherwise simular_puestos_carga is called with the
\* converted values
Index ==
    /\ pc = "index"
    /\ LET error == ErrorDe(form[1])
           c == Convertidos(form[1])
       IN /\ error_msg' = error
          /\ IF error # None
             THEN /\ pc' = "error"
                  /\ params' = None
             ELSE /\ pc' = "simular"
                  /\ params' = Some([campo \in DOMAIN c |-> c[campo][1]])
    /\ UNCHANGED <<servidores, puesto_validacion_libre, cola_validacion,
                   eventos_futuros, contador_global, evento, vector_estado,
                   clock, evento_id, n_aceptadas, n_rechazadas,
                   recaudacion_total, reloj_previo, n_ocupados_previo,
                   acum_porcentaje_ponderado, acum_tiempo_ponderado,
                   acum_time_usb_c, acum_time_lightning, acum_time_microusb,
                   rec_usb_c, rec_lightning, rec_microusb, resumen, form,
                   procesados>>

NextIndex == Index

SpecIndex == InitIndex /\ [][NextIndex]_vars

\* the posted field converts to a negative number
Negativo(campo) ==
    /\ Convertidos(form[1])[campo] # None
    /\ Convertidos(form[1])[campo][1] < 0

\* the three probabilities convert and their sum is off 1 by more than 1e-6
SumaDistintaDeUno ==
    LET c == Convertidos(form[1])
    IN /\ c.p_usb_c # None /\ c.p_lightning # None /\ c.p_microusb # None
       /\ Abs(c.p_usb_c[1] + c.p_lightning[1] + c.p_microusb[1] - Uno)
            > Uno \div 1000000

\* the handler answered with an error and never called the simulation
Rechazado ==
    /\ pc = "error"
    /\ error_msg # None
    /\ params = None
    /\ vector_estado = <<>>
    /\ resumen = None

\* C15: a form with a negative probability, probabilities whose sum is off
\* 1 by more than 1e-6, or a negative T_max, N_max, tiempo_validacion or
\* media_interarribo is answered with an error message:
\* simular_puestos_carga is not called, no row and no summary exist.
C15_RechazoSinSimular ==
    (/\ pc # "index"
     /\ \/ SumaDistintaDeUno
        \/ \E campo \in {"p_usb_c", "p_lightning", "p_microusb", "T_max",
                         "N_max", "tiempo_validacion", "media_interarribo"} :
              Negativo(campo))
    => Rechazado

\* C15 witness: a form whose only fault is a negative probability (the
\* three still add up to 1) was rejected with the probabilities' message.
C15_Witness ==
    /\ Rechazado
    /\ Negativo("p_usb_c")
    /\ ~SumaDistintaDeUno
    /\ \A campo \in {"T_max", "N_max", "tiempo_validacion",
                     "media_interarribo", "n_servidores"} :
          /\ Convertidos(form[1])[campo] # None
          /\ Convertidos(form[1])[campo][1] > 0
    /\ error_msg # Some("Los valores numericos no pueden ser negativos.")

\* C16 (as stated): a form whose n_servidores is not a positive integer, or
\* whose media_interarribo is not a positive number, is answered with an
\* error and simular_puestos_carga is not called.
C16_PuestosYMediaPositivos ==
    (/\ pc # "index"
     /\ \E campo \in {"n_servidores", "media_interarribo"} :
          \/ Convertidos(form[1])[campo] = None
          \/ Convertidos(form[1])[campo][1] <= 0)
    => Rechazado

\* C17: in every state a station whose ocupado is False has device_type,
\* etapa, fin_carga, fin_validacion and duracion_carga all None.
C17_LibreSinDatos ==
    \A i \in DOMAIN servidores :
        ~servidores[i].ocupado =>
            /\ servidores[i].device_type = None
            /\ servidores[i].etapa = None
            /\ servidores[i].fin_carga = None
            /\ servidores[i].fin_validacion = None
            /\ servidores[i].duracion_carga = None

\* C17 witness: an end_validation was just processed and the station it
\* released, which had charged a device, is not occupied.
C17_Witness ==
    /\ Procesado("end_validation")
    /\ ~servidores[evento[1].data[1] + 1].ocupado
    /\ \E k \in DOMAIN procesados :
         /\ procesados[k].tipo = "end_charge"
         /\ procesados[k].data[1] = evento[1].data[1]

\* C18: the Reloj of every row is greater than or equal to the Reloj of the
\* row before it, and every event pending in eventos_futuros is due at the
\* current clock or later.
C18_TiempoNoDecrece ==
    /\ \A i \in 2..Len(vector_estado) :
         vector_estado[i]["Reloj"] >= vector_estado[i - 1]["Reloj"]
    /\ \A k \in DOMAIN eventos_futuros : eventos_futuros[k].tiempo >= clock

\* C18 witness: the event just processed was created after an event that
\* is still pending and due later, and the clock advanced with it.
C18_Witness ==
    /\ Len(vector_estado) >= 3
    /\ evento # None
    /\ clock = evento[1].tiempo
    /\ clock > vector_estado[Len(vector_estado) - 1]["Reloj"]
    /\ \E k \in DOMAIN eventos_futuros :
         /\ eventos_futuros[k].orden < evento[1].orden
         /\ eventos_futuros[k].tiempo > clock

\* the stations (0-based) of the processed events of a type, in the order
\* they were processed
EstacionesDe(tipo) ==
    LET DeTipo(e) == e.tipo = tipo
        sel == SelectSeq(procesados, DeTipo)
    IN [k \in DOMAIN sel |-> sel[k].data[1]]

\* the last event popped lay beyond T_max and was discarded
Descartado == pc # "loop" /\ evento # None /\ evento[1].tiempo > T_max

\* the station whose device is at the stand, as a sequence of length 0 or 1:
\* its end_validation is pending, or was the event just discarded
EnPuesto ==
    LET pend == {k \in DOMAIN eventos_futuros :
                    eventos_futuros[k].tipo = "end_validation"}
    IN IF Descartado /\ evento[1].tipo = "end_validation"
       THEN <<evento[1].data[1]>>
       ELSE IF pend # {}
            THEN <<eventos_futuros[CHOOSE k \in pend : TRUE].data[1]>>
            ELSE <<>>

\* C19: the validation stand is first in, first out: the devices whose
\* end_validation was processed, then the one at the stand, then the ones
\* in the queue are, in this order, the devices whose end_charge was
\* processed, in the order those were processed.
C19_ValidacionFIFO ==
    EstacionesDe("end_charge")
        = EstacionesDe("end_validation") \o EnPuesto
            \o [k \in DOMAIN cola_validacion |-> cola_validacion[k][1]]

\* C19 witness: an end_validation was just processed with two devices in
\* the queue; the stand took one of them and the other still waits.
C19_Witness ==
    /\ Procesado("end_validation")
    /\ ~puesto_validacion_libre
    /\ Len(cola_validacion) = 1
    /\ UltimaFila["Fin de validacion"] # None

\* the rows on which a device took the stand (the validation end is set)
TomasDePuesto ==
    {i \in DOMAIN vector_estado : vector_estado[i]["Fin de validacion"] # None}

\* C20: after every processed event eventos_futuros holds exactly one
\* end_validation when the stand is taken and none when it is free, and that
\* event is due exactly tiempo_validacion after the clock of the row on
\* which its device took the stand.
C20_UnFinValidacionPendiente ==
    ~Descartado =>
        LET pend == {k \in DOMAIN eventos_futuros :
                        eventos_futuros[k].tipo = "end_validation"}
        IN /\ Cardinality(pend)
                = IF puesto_validacion_libre THEN 0 ELSE 1
           /\ \A k \in pend :
                /\ TomasDePuesto # {}
                /\ LET toma == CHOOSE i \in TomasDePuesto :
                                  \A j \in TomasDePuesto : j <= i
                   IN /\ eventos_futuros[k].tiempo
                           = vector_estado[toma]["Reloj"] + tiempo_validacion
                      /\ vector_estado[toma]["Fin de validacion"]
                           = Some(eventos_futuros[k].tiempo)
                      /\ eventos_futuros[k].data[3]
                           = eventos_futuros[k].tiempo

\* C20 witness: an end_validation was just processed, the device at the head
\* of the queue took the stand and its end_validation is pending, due a
\* positive tiempo_validacion later.
C20_Witness ==
    /\ Procesado("end_validation")
    /\ ~puesto_validacion_libre
    /\ tiempo_validacion > 0
    /\ \E k \in DOMAIN eventos_futuros :
         /\ eventos_futuros[k].tipo = "end_validation"
         /\ eventos_futuros[k].tiempo = clock + tiempo_validacion

\* the events of a type pending in eventos_futuros
PendientesDe(tipo) ==
    {eventos_futuros[k] : k \in {j \in DOMAIN eventos_futuros :
                                    eventos_futuros[j].tipo = tipo}}

\* the rows that drew a next arrival (the seed row and the arrivals)
FilasConProxima ==
    {i \in DOMAIN vector_estado : vector_estado[i]["Proxima llegada"] # None}

\* the step that processes an arrival and rejects it
Rechazo == pc = "loop" /\ n_rechazadas' = n_rechazadas + 1

\* C21: after the seed row and after every processed event exactly one
\* arrival is pending, due at the "Proxima llegada" of the last row that
\* drew one (so every processed arrival, accepted or rejected, scheduled
\* exactly one); the step that rejects an arrival changes no station, no
\* pending end_charge, no validation state and no accepted count, and the
\* only arrival it leaves pending is the newly created next one, which
\* carries nothing of the rejected device.
C21_UnaLlegadaPendiente ==
    /\ [](~Descartado =>
            /\ Cardinality({k \in DOMAIN eventos_futuros :
                               eventos_futuros[k].tipo = "arrival"}) = 1
            /\ \A e \in PendientesDe("arrival") :
                 LET ultima == CHOOSE i \in FilasConProxima :
                                  \A j \in FilasConProxima : j <= i
                 IN Some(e.tiempo) = vector_estado[ultima]["Proxima llegada"])
    /\ [][Rechazo =>
            /\ evento'[1].tipo = "arrival"
            /\ servidores' = servidores
            /\ PendientesDe("end_charge")' = PendientesDe("end_charge")
            /\ PendientesDe("end_validation")'
                 = PendientesDe("end_validation")
            /\ cola_validacion' = cola_validacion
            /\ puesto_validacion_libre' = puesto_validacion_libre
            /\ n_aceptadas' = n_aceptadas
            /\ \A e \in PendientesDe("arrival")' :
                 /\ e.orden = contador_global
                 /\ e.data = None]_vars

\* C21 witness: with at least one station, an arrival was just processed
\* and rejected, and the run had accepted a device before.
C21_Witness ==
    /\ Procesado("arrival")
    /\ n_servidores >= 1
    /\ n_aceptadas >= 1
    /\ n_rechazadas >= 1
    /\ UltimaFila["Acumulador Dispositivos Rechazados"]
         > vector_estado[Len(vector_estado) - 1]
             ["Acumulador Dispositivos Rechazados"]

\* the stations (1-based) that a step changes
Cambiados == {i \in DOMAIN servidores : servidores'[i] # servidores[i]}

\* C22: the step that accepts an arrival assigns exactly one station, which
\* was free, and every station with a lower index was occupied; the step
\* that rejects an arrival finds every station occupied.
C22_PrimerLibre ==
    [][/\ (pc = "loop" /\ n_aceptadas' = n_aceptadas + 1) =>
            /\ Cardinality(Cambiados) = 1
            /\ \A i \in Cambiados :
                 /\ ~servidores[i].ocupado
                 /\ servidores'[i].ocupado
                 /\ \A j \in 1..(i - 1) : servidores[j].ocupado
                 /\ \E e \in PendientesDe("end_charge")' :
                      /\ e.data[1] = i - 1
                      /\ e.orden = contador_global
       /\ Rechazo => \A i \in DOMAIN servidores : servidores[i].ocupado
      ]_vars

\* C22 witness: an arrival was just accepted onto the first station, which
\* had been released, while the second station is still occupied.
C22_Witness ==
    /\ Procesado("arrival")
    /\ Len(servidores) >= 2
    /\ UltimaFila["Tiempo carga"] # None
    /\ servidores[1].fin_carga = Some(clock + UltimaFila["Tiempo carga"][1])
    /\ servidores[2].ocupado
    /\ \E k \in DOMAIN procesados :
         procesados[k].tipo = "end_validation" /\ procesados[k].data[1] = 0

\* the weighted accumulator of a row (the seed row keys it without suffix)
AcumDe(fila) ==
    IF ClaveAcum \in DOMAIN fila THEN fila[ClaveAcum]
    ELSE fila["Acum porcentaje puestos en uso"]

\* C23: on every row after the seed row the weighted accumulator is the one
\* of the row before plus (stations occupied on the row before
\* / n_servidores * 100, or 0 without stations) * (Reloj - Reloj of the row
\* before), and the average is the accumulator divided by Reloj, or 0 when
\* Reloj is 0.
C23_AcumuladoPonderado ==
    \A i \in 2..Len(vector_estado) :
        LET fila == vector_estado[i]
            previa == vector_estado[i - 1]
            delta_t == fila["Reloj"] - previa["Reloj"]
            porcentaje_previo ==
                IF n_servidores > 0
                THEN <<previa["Cant dispositivos en puerto"] * 100,
                       n_servidores>>
                ELSE Cero
        IN /\ FracIgual(AcumDe(fila),
                        FracSum(AcumDe(previa),
                                FracPor(porcentaje_previo, delta_t)))
           /\ IF fila["Reloj"] > 0
              THEN FracIgual(PromedioDe(fila),
                             FracEntre(AcumDe(fila), fila["Reloj"]))
              ELSE FracIgual(PromedioDe(fila), Cero)
           /\ i = Len(vector_estado) => acum_tiempo_ponderado = fila["Reloj"]

\* C23 witness: time elapsed up to the last row while a station was
\* occupied, the last event changed the number of occupied stations, and
\* the accumulator was already positive on the row before.
C23_Witness ==
    /\ Len(vector_estado) >= 3
    /\ UltimaFila["Reloj"] > vector_estado[Len(vector_estado) - 1]["Reloj"]
    /\ vector_estado[Len(vector_estado) - 1]["Cant dispositivos en puerto"] > 0
    /\ UltimaFila["Cant dispositivos en puerto"]
         # vector_estado[Len(vector_estado) - 1]["Cant dispositivos en puerto"]
    /\ AcumDe(vector_estado[Len(vector_estado) - 1])[1] > 0

\* C23 witness for the case without elapsed time: a row at Reloj 0 after a
\* processed event, with an average of 0.
C23_WitnessSinTiempo ==
    /\ Len(vector_estado) >= 3
    /\ UltimaFila["Reloj"] = 0
    /\ UltimaFila["Cant dispositivos en puerto"] > 0
    /\ PromedioDe(UltimaFila) = Cero

\* the columns of a device type: <<cumulative minutes, revenue>>
ColumnasDeTipo(tipo) ==
    CASE tipo = "USB-C" -> <<"Acumulador tiempo USB C", "Recaudacion USB C">>
      [] tipo = "Lightning" ->
            <<"Acumulador tiempo Lightning", "Recaudacion Lightning">>
      [] tipo = "MicroUSB" ->
            <<"Acumulador tiempo MicroUSB", "Recaudacion MicroUSB">>

TiposDeDispositivo == {"USB-C", "Lightning", "MicroUSB"}

\* the end_charge events processed up to row i
FinesDeCargaHasta(i) ==
    {k \in 1..(i - 1) : procesados[k].tipo = "end_charge"}

\* C24: the row of every end_charge adds to the minutes of its device's type
\* the charge duration drawn at the arrival that scheduled it and to the
\* revenue of that type rate * duration / 60, and leaves the other types
\* alone; no other row changes them; so at every row revenue * 60 = rate *
\* minutes for each type (rates 300, 500, 1000); every accepted device is
\* credited once: the end_charge events processed never outnumber the
\* accepted devices and, with the ones still pending, are as many.
C24_RecaudacionPorCarga ==
    /\ \A i \in DOMAIN vector_estado :
         /\ vector_estado[i]["Recaudacion USB C"] * 60
              = 300 * vector_estado[i]["Acumulador tiempo USB C"]
         /\ vector_estado[i]["Recaudacion Lightning"] * 60
              = 500 * vector_estado[i]["Acumulador tiempo Lightning"]
         /\ vector_estado[i]["Recaudacion MicroUSB"] * 60
              = 1000 * vector_estado[i]["Acumulador tiempo MicroUSB"]
         /\ Cardinality(FinesDeCargaHasta(i))
              <= vector_estado[i]["Acumulador Dispositivos Aceptados"]
    /\ \A i \in 2..Len(vector_estado) : \A tipo \in TiposDeDispositivo :
         LET col == ColumnasDeTipo(tipo)
             minutos == vector_estado[i][col[1]] - vector_estado[i - 1][col[1]]
             monto == vector_estado[i][col[2]] - vector_estado[i - 1][col[2]]
             e == procesados[i - 1]
         IN IF e.tipo = "end_charge" /\ e.data[2] = tipo
            THEN /\ minutos > 0
                 /\ monto * 60 = tarifas(tipo) * minutos
                 /\ \E j \in 2..(i - 1) :
                      /\ vector_estado[j]["Tipo dispositivo"] = Some(tipo)
                      /\ vector_estado[j]["Tiempo carga"] = Some(minutos)
                      /\ vector_estado[j]["Reloj"] + minutos = e.tiempo
            ELSE minutos = 0 /\ monto = 0
    /\ Cardinality(FinesDeCargaHasta(Len(vector_estado)))
         + Cardinality(PendientesDe("end_charge"))
         + (IF Descartado /\ evento[1].tipo = "end_charge" THEN 1 ELSE 0)
       = n_aceptadas

\* C24 witness: an end_charge was just processed, the second one of its
\* device type, and a device of another type was credited before.
C24_Witness ==
    /\ Procesado("end_charge")
    /\ Cardinality({k \in DOMAIN procesados :
                      /\ procesados[k].tipo = "end_charge"
                      /\ procesados[k].data[2] = evento[1].data[2]}) >= 2
    /\ \E k \in DOMAIN procesados :
         /\ procesados[k].tipo = "end_charge"
         /\ procesados[k].data[2] # evento[1].data[2]

\* the positions of eventos_futuros that hold an event of a type
PosicionesDe(tipo) ==
    {k \in DOMAIN eventos_futuros : eventos_futuros[k].tipo = tipo}

\* the stations (0-based) with ocupado True
EstacionesOcupadas ==
    {i \in 0..(Len(servidores) - 1) : servidores[i + 1].ocupado}

\* C25: after every processed event the number of occupied stations is the
\* number of pending end_charge events plus the length of the validation
\* queue plus 1 if the stand is taken; the occupied stations are exactly the
\* stations of the pending end_charge events, of the queue entries and of
\* the device at the stand, and none of them appears twice.
C25_ConservacionDeDispositivos ==
    ~Descartado =>
        LET cargando == PosicionesDe("end_charge")
            validando == PosicionesDe("end_validation")
            EstCarga == {eventos_futuros[k].data[1] : k \in cargando}
            EstValid == {eventos_futuros[k].data[1] : k \in validando}
            EstCola == {cola_validacion[k][1] : k \in DOMAIN cola_validacion}
        IN /\ Ocupados(servidores)
                = Cardinality(cargando) + Len(cola_validacion)
                    + (IF puesto_validacion_libre THEN 0 ELSE 1)
           /\ Cardinality(validando)
                = IF puesto_validacion_libre THEN 0 ELSE 1
           /\ Cardinality(EstCarga) = Cardinality(cargando)
           /\ Cardinality(EstCola) = Len(cola_validacion)
           /\ EstCarga \cap EstCola = {}
           /\ EstCarga \cap EstValid = {}
           /\ EstCola \cap EstValid = {}
           /\ EstacionesOcupadas = EstCarga \cup EstCola \cup EstValid

\* C25 witness: after a processed event one device is charging, another is
\* at the stand and a third waits in the queue.
C25_Witness ==
    /\ ~Descartado
    /\ evento_id > 0
    /\ PosicionesDe("end_charge") # {}
    /\ ~puesto_validacion_libre
    /\ Len(cola_validacion) >= 1

\* the stations (0-based) whose device finished charging and has not left:
\* more end_charge than end_validation events were processed for them
PorSalir ==
    {s \in 0..(Len(servidores) - 1) :
        Cardinality({k \in DOMAIN procesados :
                        /\ procesados[k].tipo = "end_charge"
                        /\ procesados[k].data[1] = s})
          > Cardinality({k \in DOMAIN procesados :
                           /\ procesados[k].tipo = "end_validation"
                           /\ procesados[k].data[1] = s})}

\* the end_validation of station s is pending, or was the event discarded
\* by the break
SalidaProgramada(s) ==
    \/ EnValidacion(s)
    \/ Descartado /\ evento[1].tipo = "end_validation"
                  /\ evento[1].data[1] = s

\* the last event processed was the end_charge of station s
FinCargaDe(s) == Procesado("end_charge") /\ evento[1].data[1] = s

\* the last event processed was the end_validation of station s
FinValidacionDe(s) == Procesado("end_validation") /\ evento[1].data[1] = s

\* C26: every processed end_charge of a station is eventually followed by
\* the processed end_validation of that station unless the run ends first,
\* and a run ends only by the horizon (an event beyond T_max is discarded)
\* or by the cap (N_max events processed); until then a device that finished
\* charging has its end_validation scheduled or waits in the queue behind a
\* device that has; after the end_validation the station is not occupied
\* and its device is neither at the stand nor in the queue.
C26_TodoDispositivoSale ==
    /\ \A s \in {0, 1} :
         FinCargaDe(s) ~> (FinValidacionDe(s) \/ pc # "loop")
    /\ [](pc # "loop" => (Descartado \/ evento_id >= N_max))
    /\ [](\A s \in PorSalir :
            \/ SalidaProgramada(s)
            \/ /\ EnCola(s)
               /\ ~puesto_validacion_libre
               /\ \E r \in PorSalir : SalidaProgramada(r))
    /\ [](\A s \in 0..(Len(servidores) - 1) :
            FinValidacionDe(s) =>
                /\ ~servidores[s + 1].ocupado
                /\ ~EnCola(s)
                /\ ~EnValidacion(s)
                /\ s \notin PorSalir)

\* C26 witness: the run is still going, the end_validation of a station was
\* just processed, and its device had waited in the queue while the
\* end_validation of another station was processed.
C26_Witness ==
    /\ pc = "loop"
    /\ \E s \in 0..(Len(servidores) - 1) :
         /\ FinValidacionDe(s)
         /\ \E k \in DOMAIN procesados : \E j \in (k + 1)..Len(procesados) :
              /\ procesados[k].tipo = "end_charge"
              /\ procesados[k].data[1] = s
              /\ procesados[j].tipo = "end_validation"
              /\ procesados[j].data[1] # s

====
